---- MODULE Spec2Model ----
(***************************************************************************)
(* Model of greykite.sklearn.uncertainty.base_uncertainty_model:           *)
(* the class BaseUncertaintyModel, its constructor and its three methods   *)
(* _check_input, fit and predict, called in any order on two instances.    *)
(***************************************************************************)
EXTENDS Integers, Sequences, FiniteSets, TLC

\* Largest number of rows of a training or future frame.
MaxRows == 2

(***************************************************************************)
(* Python values.                                                          *)
(***************************************************************************)
\* Python's None.
None == [kind |-> "None"]

\* An attribute that was never set on the instance (absent from __dict__).
Absent == [kind |-> "absent"]

Str(s) == [kind |-> "str", s |-> s]

Num(n) == [kind |-> "num", n |-> n]

\* A dict, as the set of its <<key, value>> items.
Dict(items) == [kind |-> "dict", items |-> items]

EmptyDict == Dict({})

\* A pandas.DataFrame, as its set of columns and its number of rows.
DataFrame(cols, nrows) == [kind |-> "frame", cols |-> cols, nrows |-> nrows]

\* The methods of UncertaintyMethodEnum, which the class docstring refers to.
UncertaintyMethodEnum == {"simple_conditional_residuals"}

\* The values passed as uncertainty_dict: None, an empty dict, a dict of the
\* documented shape, one whose method is not in the enum, and a malformed one
\* (no "uncertainty_method" key, "params" not a dict).
UncertaintyDicts ==
    { None,
      EmptyDict,
      Dict({<<"uncertainty_method", Str("simple_conditional_residuals")>>,
            <<"params", EmptyDict>>}),
      Dict({<<"uncertainty_method", Str("no_such_method")>>,
            <<"params", EmptyDict>>}),
      Dict({<<"params", Str("0.95")>>}) }

\* The frames passed to fit: complete frames of 0..MaxRows rows, and a frame
\* without the forecast column.
TrainFrames ==
    { DataFrame({"ts", "actual", "forecast"}, n) : n \in 0..MaxRows }
        \cup { DataFrame({"ts", "actual"}, MaxRows) }

\* The frames passed to predict.
FutFrames == { DataFrame({"ts", "forecast"}, n) : n \in 0..MaxRows }

\* The attributes the constructor sets by name.
FieldNames ==
    {"uncertainty_dict", "uncertainty_method", "params", "train_df",
     "uncertainty_model", "pred_df"}

\* The attribute names of an instance in this model: the six fields and one
\* name that only **kwargs can set.
AttrNames == FieldNames \cup {"coverage"}

\* The **kwargs of the constructor: none, or a keyword that is no field
\* together with a keyword named after a field.  uncertainty_dict is a named
\* parameter and so never a key of kwargs.
KwargsSet ==
    { [a \in {} |-> None],
      [a \in {"coverage", "train_df"} |->
          IF a = "coverage" THEN Num(95)
          ELSE DataFrame({"ts", "actual", "forecast"}, 1)] }

\* The instances.
Instances == {"m1", "m2"}

\* What a call did: the instance after it, how it ended, what it returned and
\* the calls and assignments it made, in order.
Ret(self, steps) ==
    [self |-> self, outcome |-> "returned", result |-> None, steps |-> steps]

(***************************************************************************)
(* The class.                                                              *)
(***************************************************************************)
\* Mutant of __init__: validates eagerly, storing an empty dict for None.
init_Normalising(uncertainty_dict, kwargs) ==
    LET o0 == [a \in AttrNames |-> Absent]
        o1 == [o0 EXCEPT !.uncertainty_dict =
                  IF uncertainty_dict = None THEN EmptyDict ELSE uncertainty_dict]
        o2 == [a \in AttrNames |->
                  IF a \in DOMAIN kwargs THEN kwargs[a] ELSE o1[a]]
        o3 == [o2 EXCEPT !.uncertainty_method = None,
                         !.params = None,
                         !.train_df = None,
                         !.uncertainty_model = None,
                         !.pred_df = None]
    IN  Ret(o3, <<"set uncertainty_dict", "setattr kwargs",
                  "reset fit fields", "reset pred_df">>)

\* Mutant of __init__: the keyword arguments are set after the fields.
init_KwargsLast(uncertainty_dict, kwargs) ==
    LET o0 == [a \in AttrNames |-> Absent]
        o1 == [o0 EXCEPT !.uncertainty_dict = uncertainty_dict,
                         !.uncertainty_method = None,
                         !.params = None,
                         !.train_df = None,
                         !.uncertainty_model = None,
                         !.pred_df = None]
        o2 == [a \in AttrNames |->
                  IF a \in DOMAIN kwargs THEN kwargs[a] ELSE o1[a]]
    IN  Ret(o2, <<"set uncertainty_dict", "reset fit fields",
                  "reset pred_df", "setattr kwargs">>)

__init__(uncertainty_dict, kwargs) ==
    LET o0 == [a \in AttrNames |-> Absent]
        o1 == [o0 EXCEPT !.uncertainty_dict = uncertainty_dict]
        o2 == [a \in AttrNames |->
                  IF a \in DOMAIN kwargs THEN kwargs[a] ELSE o1[a]]
        o3 == [o2 EXCEPT !.uncertainty_method = None,
                         !.params = None,
                         !.train_df = None,
                         !.uncertainty_model = None]
        o4 == [o3 EXCEPT !.pred_df = None]
    IN  Ret(o4, <<"set uncertainty_dict", "setattr kwargs",
                  "reset fit fields", "reset pred_df">>)

\* Mutant of _check_input: the `is None` guard is missing.
check_input_Unguarded(self) ==
    Ret([self EXCEPT !.uncertainty_dict = EmptyDict], <<"set uncertainty_dict">>)

\* Mutant of _check_input: a None configuration is an error, not a default.
check_input_Raising(self) ==
    IF self.uncertainty_dict = None
    THEN [self |-> self, outcome |-> "UncertaintyError", result |-> None,
          steps |-> <<"raise">>]
    ELSE Ret(self, <<>>)

_check_input(self) ==
    IF self.uncertainty_dict = None
    THEN Ret([self EXCEPT !.uncertainty_dict = EmptyDict],
             <<"set uncertainty_dict">>)
    ELSE Ret(self, <<>>)

\* Mutant of fit: a frame already stored is kept.
fit_KeepsFirstFrame(self, train_df) ==
    IF self.train_df = None
    THEN Ret([self EXCEPT !.train_df = train_df], <<"set train_df">>)
    ELSE Ret(self, <<>>)

\* Mutant of fit: the frame's index is reset in place before it is stored.
fit_ResetsIndex(self, train_df) ==
    Ret([self EXCEPT !.train_df =
             DataFrame(train_df.cols \cup {"index"}, train_df.nrows)],
        <<"reset_index", "set train_df">>)

fit(self, train_df) ==
    Ret([self EXCEPT !.train_df = train_df], <<"set train_df">>)

\* Mutant of predict: the future frame is stored where fit stores its frame.
predict_StoresTrainDf(self, fut_df) ==
    Ret([self EXCEPT !.train_df = fut_df], <<"set train_df">>)

predict(self, fut_df) ==
    Ret(self, <<>>)

(***************************************************************************)
(* State.                                                                  *)
(***************************************************************************)
VARIABLES
    obj,         \* obj[i]: the attributes of instance i
    init_dict,   \* init_dict[i]: the uncertainty_dict instance i was constructed with
    fit_called,  \* fit_called[i]: fit was called on instance i since its construction
    last         \* the last call: method, instance, arguments, the instance before it, what it did

vars == <<obj, init_dict, fit_called, last>>

NoKwargs == [a \in {} |-> None]

\* An instance before its constructor has run: no attribute is set.
Unconstructed == [a \in AttrNames |-> Absent]

\* The record of a call of method op on instance i: its arguments, the
\* attributes of the instance before the call, and what the call did.
Call(op, i, arg, kwargs, before, r) ==
    [op |-> op, inst |-> i, arg |-> arg, kwargs |-> kwargs, before |-> before,
     outcome |-> r.outcome, result |-> r.result, steps |-> r.steps]

Init ==
    \E d \in [Instances -> UncertaintyDicts], kw \in [Instances -> KwargsSet] :
        /\ obj = [i \in Instances |-> __init__(d[i], kw[i]).self]
        /\ init_dict = d
        /\ fit_called = [i \in Instances |-> FALSE]
        /\ last = Call("__init__", "m2", d["m2"], kw["m2"], Unconstructed,
                       __init__(d["m2"], kw["m2"]))

\* A fresh instance is constructed and takes the place of instance i.
Construct(i) ==
    \E d \in UncertaintyDicts, kw \in KwargsSet :
        LET r == __init__(d, kw)
        IN  /\ obj' = [obj EXCEPT ![i] = r.self]
            /\ init_dict' = [init_dict EXCEPT ![i] = d]
            /\ fit_called' = [fit_called EXCEPT ![i] = FALSE]
            /\ last' = Call("__init__", i, d, kw, Unconstructed, r)

\* Mutant of CheckInput: the configuration is normalised in place, in the
\* object that every instance constructed from it holds.
CheckInput_InPlace(i) ==
    LET r == _check_input(obj[i])
    IN  /\ obj' = [j \in Instances |->
                      IF obj[j].uncertainty_dict = obj[i].uncertainty_dict
                      THEN [obj[j] EXCEPT !.uncertainty_dict = r.self.uncertainty_dict]
                      ELSE obj[j]]
        /\ last' = Call("_check_input", i, None, NoKwargs, obj[i], r)
        /\ UNCHANGED <<init_dict, fit_called>>

CheckInput(i) ==
    LET r == _check_input(obj[i])
    IN  /\ obj' = [obj EXCEPT ![i] = r.self]
        /\ last' = Call("_check_input", i, None, NoKwargs, obj[i], r)
        /\ UNCHANGED <<init_dict, fit_called>>

Fit(i) ==
    \E train_df \in TrainFrames :
        LET r == fit(obj[i], train_df)
        IN  /\ obj' = [obj EXCEPT ![i] = r.self]
            /\ fit_called' = [fit_called EXCEPT ![i] = TRUE]
            /\ last' = Call("fit", i, train_df, NoKwargs, obj[i], r)
            /\ UNCHANGED init_dict

Predict(i) ==
    \E fut_df \in FutFrames :
        LET r == predict(obj[i], fut_df)
        IN  /\ obj' = [obj EXCEPT ![i] = r.self]
            /\ last' = Call("predict", i, fut_df, NoKwargs, obj[i], r)
            /\ UNCHANGED <<init_dict, fit_called>>

Next ==
    \E i \in Instances :
        \/ Construct(i)
        \/ CheckInput(i)
        \/ Fit(i)
        \/ Predict(i)

Spec == Init /\ [][Next]_vars

(***************************************************************************)
(* Vocabulary of the properties.                                           *)
(***************************************************************************)
\* The instance the last call was made on, as it is now.
Receiver == obj[last.inst]

\* The fields that hold what fit produces.
FittedFields == {"train_df", "uncertainty_method", "params", "uncertainty_model"}

\* The value of key k in dict d, Absent when d has no such key.
Get(d, k) ==
    IF d.kind = "dict" /\ \E it \in d.items : it[1] = k
    THEN (CHOOSE it \in d.items : it[1] = k)[2]
    ELSE Absent

\* A configuration with a field absent or ill-typed.
Malformed(d) ==
    /\ d.kind = "dict"
    /\ d # EmptyDict
    /\ \/ Get(d, "uncertainty_method").kind # "str"
       \/ Get(d, "params").kind # "dict"

\* A configuration whose method tag is not a registered method.
UnknownMethod(d) ==
    /\ Get(d, "uncertainty_method").kind = "str"
    /\ Get(d, "uncertainty_method").s \notin UncertaintyMethodEnum

\* A training frame that is empty or lacks the actual or the forecast column.
UnfitFrame(df) == df.nrows = 0 \/ ~({"actual", "forecast"} \subseteq df.cols)

(***************************************************************************)
(* C1.  predict on an instance on which fit was never called ends in the   *)
(* usage error and returns nothing.                                        *)
(* The code's predict is `pass`: it returns None normally.                 *)
(***************************************************************************)
C1_PredictBeforeFitIsUsageError ==
    (last.op = "predict" /\ ~fit_called[last.inst])
        => last.outcome = "UsageError"

(***************************************************************************)
(* C2.  fit stores train_df, then calls _check_input, then fits the        *)
(* strategy; when fit returns normally uncertainty_model exists.           *)
(* The code's fit only stores train_df.                                    *)
(***************************************************************************)
C2_FitStoresValidatesFits ==
    (last.op = "fit" /\ last.outcome = "returned")
        => /\ Len(last.steps) = 3
           /\ last.steps[1] = "set train_df"
           /\ last.steps[2] = "_check_input"
           /\ Receiver.train_df = last.arg
           /\ Receiver.uncertainty_model # None

(***************************************************************************)
(* C3.  fit with a training frame that is empty or lacks a required column *)
(* ends in the fit error and leaves the instance as it was before the call.*)
(* The code's fit never raises and keeps the frame in train_df.            *)
(***************************************************************************)
C3_FailedFitRetainsNothing ==
    (last.op = "fit" /\ UnfitFrame(last.arg))
        => /\ last.outcome = "UncertaintyFitError"
           /\ Receiver = last.before

(***************************************************************************)
(* C4.  After a fit with frame B on an instance fitted before, train_df is *)
(* B and params, uncertainty_model and pred_df hold nothing of the earlier *)
(* fit.                                                                    *)
(***************************************************************************)
C4_RefitReplacesFittedState ==
    (last.op = "fit" /\ last.before.train_df # None)
        => /\ Receiver.train_df = last.arg
           /\ \A f \in {"params", "uncertainty_model", "pred_df"} :
                  Receiver[f] = None

C4_Witness ==
    /\ last.op = "fit"
    /\ last.before.train_df \in TrainFrames \ {last.arg}
    /\ Receiver.train_df = last.arg

(***************************************************************************)
(* C5.  After predict(fut_df) on a fitted instance, pred_df is the         *)
(* prediction for fut_df and is not None.                                  *)
(* The code's predict never assigns pred_df.                               *)
(***************************************************************************)
C5_PredictStoresPrediction ==
    (last.op = "predict" /\ fit_called[last.inst])
        => /\ Receiver.pred_df # None
           /\ Receiver.pred_df.kind = "frame"
           /\ Receiver.pred_df.nrows = last.arg.nrows
           /\ last.arg.cols \subseteq Receiver.pred_df.cols

(***************************************************************************)
(* C6.  The constructor returns normally for every configuration and       *)
(* stores in uncertainty_dict exactly the value it was given; no call on   *)
(* an instance that was never fitted ends in an error.                     *)
(***************************************************************************)
C6_ConstructionNeverValidates ==
    /\ last.op = "__init__"
           => /\ last.outcome = "returned"
              /\ Receiver.uncertainty_dict = last.arg
    /\ ~fit_called[last.inst] => last.outcome = "returned"

C6_Witness ==
    /\ last.op = "__init__"
    /\ Malformed(last.arg)
    /\ Receiver.uncertainty_dict = last.arg
    /\ last.outcome = "returned"

(***************************************************************************)
(* C7.  Validation of a configuration with a field absent or ill-typed,    *)
(* called by fit or directly, ends in the uncertainty-specific error.      *)
(* The code's fit does not validate and its _check_input never raises.     *)
(***************************************************************************)
C7_MalformedConfigurationRaises ==
    (last.op \in {"fit", "_check_input"} /\ Malformed(last.before.uncertainty_dict))
        => last.outcome = "UncertaintyError"

(***************************************************************************)
(* C8.  An instance whose method tag is not registered never stores a      *)
(* training frame, and fit and predict on it end in the configuration      *)
(* error.                                                                  *)
(* The code never looks at the method tag.                                 *)
(***************************************************************************)
C8_UnknownMethodRaisesBeforeData ==
    \A i \in Instances :
        UnknownMethod(init_dict[i])
            => /\ obj[i].train_df = None
               /\ (last.inst = i /\ last.op \in {"fit", "predict"})
                      => last.outcome = "ConfigurationError"

(***************************************************************************)
(* C9.  predict leaves train_df, uncertainty_dict, uncertainty_method,     *)
(* params and uncertainty_model as they were before the call.              *)
(***************************************************************************)
C9_PredictKeepsFittedState ==
    last.op = "predict"
        => \A f \in FittedFields \cup {"uncertainty_dict"} :
               Receiver[f] = last.before[f]

C9_Witness ==
    /\ last.op = "predict"
    /\ fit_called[last.inst]
    /\ Receiver.train_df \in TrainFrames
    /\ Receiver.uncertainty_dict = None

(***************************************************************************)
(* C10.  As claimed: uncertainty_dict always equals the value the          *)
(* constructor was given.  _check_input replaces None by the empty dict.   *)
(***************************************************************************)
C10_ConfigurationNeverChanges ==
    \A i \in Instances : obj[i].uncertainty_dict = init_dict[i]

(***************************************************************************)
(* C10, amended.  uncertainty_dict equals the value the constructor was    *)
(* given, except that _check_input replaces a None configuration by the    *)
(* empty dict; fit and predict leave uncertainty_dict as it is.            *)
(***************************************************************************)
C10_ConfigurationChangesOnlyFromNone ==
    /\ \A i \in Instances :
           \/ obj[i].uncertainty_dict = init_dict[i]
           \/ init_dict[i] = None /\ obj[i].uncertainty_dict = EmptyDict
    /\ last.op \in {"fit", "predict"}
           => Receiver.uncertainty_dict = last.before.uncertainty_dict
    /\ last.op = "_check_input"
           => Receiver.uncertainty_dict =
                  IF last.before.uncertainty_dict = None THEN EmptyDict
                  ELSE last.before.uncertainty_dict

C10_Witness ==
    /\ last.op = "_check_input"
    /\ init_dict[last.inst] = None
    /\ fit_called[last.inst]
    /\ Receiver.uncertainty_dict = EmptyDict

(***************************************************************************)
(* C11.  Instances share no mutable state: a call on one instance          *)
(* (constructor, fit, predict or _check_input) leaves every attribute of   *)
(* the other instance as it was, also when both instances were constructed *)
(* from the same configuration or fitted with the same frame.              *)
(***************************************************************************)
C11_InstancesShareNothing ==
    [][\A j \in Instances : j # last'.inst => obj'[j] = obj[j]]_vars

\* m1 and m2 were constructed from the same None configuration; m1 has been
\* validated and fitted, m2 still holds what its constructor stored.
C11_Witness ==
    /\ init_dict["m1"] = None
    /\ init_dict["m2"] = None
    /\ last.inst = "m1"
    /\ last.op = "_check_input"
    /\ obj["m1"].uncertainty_dict = EmptyDict
    /\ obj["m1"].train_df \in TrainFrames
    /\ obj["m2"].uncertainty_dict = None
    /\ obj["m2"].train_df = None

(***************************************************************************)
(* C12.  fit only reads the training frame: the frame the instance holds   *)
(* in train_df after fit(train_df) is the frame that was passed, with the  *)
(* columns and the rows it had before the call.                            *)
(***************************************************************************)
C12_FitKeepsFrameAsPassed ==
    last.op = "fit"
        => /\ last.outcome = "returned"
           /\ Receiver.train_df.kind = "frame"
           /\ Receiver.train_df.cols = last.arg.cols
           /\ Receiver.train_df.nrows = last.arg.nrows

C12_Witness ==
    /\ last.op = "fit"
    /\ last.arg.nrows = MaxRows
    /\ last.arg.cols = {"ts", "actual", "forecast"}
    /\ Receiver.train_df = last.arg

(***************************************************************************)
(* C13.  predict on a fitted instance with a non-empty future frame        *)
(* returns a frame with as many rows as the future frame.                  *)
(* The code's predict returns None.                                        *)
(***************************************************************************)
C13_PredictReturnsRowPerRow ==
    (last.op = "predict" /\ fit_called[last.inst] /\ last.arg.nrows > 0)
        => /\ last.outcome = "returned"
           /\ last.result.kind = "frame"
           /\ last.result.nrows = last.arg.nrows

(***************************************************************************)
(* C14.  _check_input returns normally; it replaces a None                 *)
(* uncertainty_dict by the empty dict and leaves any other                 *)
(* uncertainty_dict, and every other attribute, as it is; a second call    *)
(* changes nothing.                                                        *)
(***************************************************************************)
C14_CheckInputNormalises ==
    last.op = "_check_input"
        => /\ last.outcome = "returned"
           /\ Receiver.uncertainty_dict =
                  IF last.before.uncertainty_dict = None THEN EmptyDict
                  ELSE last.before.uncertainty_dict
           /\ \A a \in AttrNames \ {"uncertainty_dict"} :
                  Receiver[a] = last.before[a]
           /\ _check_input(Receiver).self = Receiver
           /\ _check_input(Receiver).outcome = "returned"

C14_Witness ==
    /\ last.op = "_check_input"
    /\ last.before.uncertainty_dict = None
    /\ Receiver.uncertainty_dict = EmptyDict
    /\ Receiver.train_df \in TrainFrames
    /\ Receiver.coverage = Num(95)

(***************************************************************************)
(* C15.  Right after construction uncertainty_method, params, train_df,    *)
(* uncertainty_model and pred_df are None, also when a keyword argument    *)
(* has the name of one of them; every other keyword argument is an         *)
(* attribute with the value given, and no other attribute is set.          *)
(***************************************************************************)
C15_ConstructorResetsFields ==
    last.op = "__init__"
        => /\ \A f \in FieldNames \ {"uncertainty_dict"} : Receiver[f] = None
           /\ \A a \in AttrNames \ FieldNames :
                  Receiver[a] =
                      IF a \in DOMAIN last.kwargs THEN last.kwargs[a] ELSE Absent

C15_Witness ==
    /\ last.op = "__init__"
    /\ "train_df" \in DOMAIN last.kwargs
    /\ last.kwargs["train_df"] # None
    /\ Receiver.train_df = None
    /\ "coverage" \in DOMAIN last.kwargs
    /\ Receiver.coverage = last.kwargs["coverage"]

====
